---- MODULE Spec2Model ----
(***************************************************************************)
(* Model of smart_paste: the key handler (keyboard_handler.py), the paste  *)
(* threads it starts (smart_paste.py) and the upload with retries          *)
(* (file_transfer.py).                                                     *)
(*                                                                         *)
(* Time is counted in units of 250 ms, so that paste_cooldown (0.5 s) is   *)
(* two units and a moment strictly inside the window exists.               *)
(***************************************************************************)
EXTENDS Integers, Sequences, FiniteSets, TLC

VARIABLES
    now,             \* time.time(), in units of 250 ms
    held,            \* keys physically held down (the keyboard itself)
    current_app,     \* what _get_current_app() returns at this moment
    pressed_keys,    \* KeyboardHandler.pressed_keys
    cmd_pressed,     \* KeyboardHandler.cmd_pressed
    enabled,         \* KeyboardHandler.enabled
    running,         \* KeyboardHandler.running
    listener,        \* KeyboardHandler.listener and the state of its thread
    last_paste_time, \* KeyboardHandler.last_paste_time
    ev,              \* the key event a callback has just handled, and its outcome
    press_emits,     \* paste threads started since the trigger key last went down
    tasks,           \* the paste threads started by _handle_paste_event
    max_retries,     \* config.scp_retry_count
    ssh_client,      \* FileTransfer.ssh_client, shared by all paste threads
    stats,           \* SmartPaste.stats, shared by all paste threads
    sessions,        \* the SSH sessions open, each named by the thread that opened it
    config_manager,  \* ConfigManager: _config, config.json and config.backup
    ssh_config_cache, \* TerminalDetector.ssh_config_cache
    argv,            \* the argument vector given to _parse_ssh_command
    parsed,          \* what _parse_ssh_command returned for argv
    procs,           \* the process table: the foreground shell and its ancestors
    top,             \* what the last process of procs reports as its parent
    walk,            \* _detect_ssh_in_process_tree: its position and its result
    context,         \* what get_current_connection_info returned
    cfg,             \* _load_ssh_config: the source and the line it is at
    shell_env        \* what the environment of the foreground shell holds

vars == <<now, held, current_app, pressed_keys, cmd_pressed, enabled, running,
          listener, last_paste_time, ev, press_emits, tasks, max_retries,
          ssh_client, stats, sessions, config_manager, ssh_config_cache,
          argv, parsed, procs, top,
          walk, context, cfg, shell_env>>

\* the state of the key handler and of the keyboard
handlerVars == <<now, held, current_app, pressed_keys, cmd_pressed, enabled,
                 running, listener, last_paste_time, ev, press_emits>>

\* the state of the upload path
uploadVars == <<max_retries, ssh_client, stats, sessions, config_manager>>

keyVars == <<pressed_keys, cmd_pressed, last_paste_time, press_emits>>

\* everything but the state of the terminal detector
pasteVars == <<handlerVars, tasks, uploadVars>>

\* the state of the terminal detector
detectVars == <<ssh_config_cache, argv, parsed, procs, top, walk, context,
                cfg, shell_env>>

-----------------------------------------------------------------------------
(* Bounds of the model *)

\* the clock of the first state (time.time() is far beyond one cooldown window)
StartTime == 3

\* how many 250 ms units the clock advances
MaxTicks == 3

\* the largest configured scp_retry_count
MaxRetries == 2

\* how many paste threads the dispatch specification starts
MaxTasks == 2

\* the largest configured scp_retry_count with which paste threads run side
\* by side
MaxRetriesShared == 1

\* the flags before the destination of a command line given to the parser
MaxFlags == 3

\* the processes of an ancestry the walk is run on
MaxChain == 3

\* the lines read of one configuration file
MaxLines == 4

-----------------------------------------------------------------------------
(* Keys and applications *)

KeyCmd == "cmd"
KeyCmdR == "cmd_r"
KeyV == "v"

Keys == {KeyCmd, KeyCmdR, KeyV}

\* Python's None, for the listener and for events
None == "None"

\* what _get_current_app() gives when the query fails (None) or answers with
\* nothing (''): both are false in `if not current_app`
NoApp == <<>>

Terminal == <<"T", "e", "r", "m", "i", "n", "a", "l">>
ITerm2 == <<"i", "T", "e", "r", "m", "2">>
ITerm == <<"i", "T", "e", "r", "m">>
Hyper == <<"H", "y", "p", "e", "r">>
Alacritty == <<"A", "l", "a", "c", "r", "i", "t", "t", "y">>
Wezterm == <<"W", "e", "z", "t", "e", "r", "m">>
Stable == <<"s", "t", "a", "b", "l", "e">>
Warp == <<"W", "a", "r", "p">>
Safari == <<"S", "a", "f", "a", "r", "i">>

\* KeyboardHandler.terminal_apps
terminal_apps == {Terminal, ITerm2, ITerm, Hyper, Alacritty, Wezterm, Stable, Warp}

\* the foreground applications the model switches between
Apps == {ITerm2, Safari, NoApp}

\* KeyboardHandler.paste_cooldown: 0.5 s = 2 units of 250 ms
paste_cooldown == 2

\* Python's `needle in hay` for strings
Contains(hay, needle) ==
    \E i \in 0..(Len(hay) - Len(needle)) :
        \A j \in 1..Len(needle) : hay[i + j] = needle[j]

\* no key event has just been handled
NoEvent == [key |-> None, down |-> FALSE, ret |-> "None", emitted |-> 0,
            propagated |-> FALSE, flag |-> FALSE, on |-> TRUE, app |-> FALSE,
            elapsed |-> 0]

-----------------------------------------------------------------------------
(* KeyboardHandler *)

\* _should_intercept: the foreground application is a terminal; no answer of
\* _get_current_app (None after a failed query, or an empty name) is none
InterceptsWithoutApp ==
    \/ current_app = NoApp
    \/ \E terminal \in terminal_apps : Contains(current_app, terminal)
ShouldIntercept ==
    /\ current_app # NoApp
    /\ \E terminal \in terminal_apps : Contains(current_app, terminal)

\* `key == KeyCode.from_char('v') and self.cmd_pressed`
IsCmdV(key) == key = KeyV /\ cmd_pressed

CooldownElapsedAtOrAfter(current_time) == current_time - last_paste_time >= paste_cooldown

\* `current_time - self.last_paste_time > self.paste_cooldown`
CooldownElapsed(current_time) == current_time - last_paste_time > paste_cooldown

AcceptsIgnoringModifier(key) ==
    /\ key = KeyV
    /\ enabled
    /\ ShouldIntercept
    /\ CooldownElapsed(now)

\* the condition under which _on_key_press reaches _handle_paste_event
Accepts(key) ==
    /\ key \notin {KeyCmd, KeyCmdR}
    /\ IsCmdV(key)
    /\ enabled
    /\ ShouldIntercept
    /\ CooldownElapsed(now)

\* no upload_file call has returned yet
NoResult == [success |-> FALSE, error |-> "", after |-> 0]

\* no transfer and no verification has been made in this attempt
NoAttempt == [mkdir |-> "none", put |-> "none", verify |-> "none",
              error |-> ""]

\* os.path.getsize has not been called
NoSize == -1

\* a paste thread as threading.Thread(target=paste_callback).start() leaves it:
\* pc is its position, attempt/last_error/result the locals of
\* upload_file_with_retry; connects, calls, fails and oks count its connect_ssh
\* calls, its upload_file calls and how these ended; cur is what happened in
\* its latest upload_file call; injected is what it sent to the terminal and
\* shown the result whose error message its last comment carries; content is
\* what it found in the clipboard, size what getsize told it, resolves and
\* copies count its context queries and its copies to the local directory;
\* loaded is the value of the counter it read for its latest `+= 1`
NewTask == [pc |-> "start", at |-> now, attempt |-> 0, last_error |-> "",
            result |-> NoResult, connects |-> 0, calls |-> 0, fails |-> 0,
            oks |-> 0, cur |-> NoAttempt, injected |-> <<>>,
            shown |-> NoResult, content |-> "none", size |-> NoSize,
            resolves |-> 0, copies |-> 0, loaded |-> 0]

\* _handle_paste_event: the callback runs in a thread of its own
HandlePasteEvent == tasks' = Append(tasks, NewTask)

StampTriggerNever(current_time) == UNCHANGED last_paste_time

\* `self.last_paste_time = current_time`
StampTrigger(current_time) == last_paste_time' = current_time

\* the value _on_key_press returns
PressReturn(accepted) == IF accepted THEN "False" ELSE "None"

\* keyboard.Listener(on_press=..., on_release=...): no suppress argument, so
\* the listener never keeps an event from the foreground application
ListenerSuppress == FALSE

\* a pynput listener stops when a callback returns False
ListenerAfter(ret) == IF ret = "False" THEN "stopped" ELSE listener

OnKeyPressStampsBeforeCooldown(key) ==
    LET accepted == Accepts(key) IN
    /\ pressed_keys' = pressed_keys \cup {key}
    /\ cmd_pressed' = IF key \in {KeyCmd, KeyCmdR} THEN TRUE ELSE cmd_pressed
    /\ IF IsCmdV(key) /\ enabled /\ ShouldIntercept
          THEN StampTrigger(now)
          ELSE UNCHANGED last_paste_time
    /\ IF accepted THEN HandlePasteEvent ELSE UNCHANGED tasks
    /\ ev' = [key |-> key, down |-> TRUE, ret |-> PressReturn(accepted),
              emitted |-> Len(tasks') - Len(tasks),
              propagated |-> ~ListenerSuppress,
              flag |-> cmd_pressed, on |-> enabled, app |-> ShouldIntercept,
              elapsed |-> now - last_paste_time]
    /\ listener' = ListenerAfter(PressReturn(accepted))

\* _on_key_press
OnKeyPress(key) ==
    LET accepted == Accepts(key) IN
    /\ pressed_keys' = pressed_keys \cup {key}
    /\ cmd_pressed' = IF key \in {KeyCmd, KeyCmdR} THEN TRUE ELSE cmd_pressed
    /\ IF accepted
          THEN /\ StampTrigger(now)
               /\ HandlePasteEvent
          ELSE UNCHANGED <<last_paste_time, tasks>>
    /\ ev' = [key |-> key, down |-> TRUE, ret |-> PressReturn(accepted),
              emitted |-> Len(tasks') - Len(tasks),
              propagated |-> ~ListenerSuppress,
              flag |-> cmd_pressed, on |-> enabled, app |-> ShouldIntercept,
              elapsed |-> now - last_paste_time]
    /\ listener' = ListenerAfter(PressReturn(accepted))

\* _on_key_release
OnKeyRelease(key) ==
    /\ pressed_keys' = pressed_keys \ {key}
    /\ cmd_pressed' = IF key \in {KeyCmd, KeyCmdR} THEN FALSE ELSE cmd_pressed
    /\ ev' = [key |-> key, down |-> FALSE, ret |-> "None", emitted |-> 0,
              propagated |-> ~ListenerSuppress,
              flag |-> cmd_pressed, on |-> enabled, app |-> ShouldIntercept,
              elapsed |-> now - last_paste_time]
    /\ listener' = ListenerAfter("None")
    /\ UNCHANGED <<last_paste_time, tasks>>

-----------------------------------------------------------------------------
(* The keyboard and the listener thread *)

\* a key goes down; an active listener calls on_press
KeyDown(key) ==
    /\ key \notin held
    /\ held' = held \cup {key}
    /\ IF listener = "active"
          THEN /\ OnKeyPress(key)
               /\ press_emits' = IF key # KeyV THEN press_emits
                                 ELSE Len(tasks') - Len(tasks)
          ELSE /\ UNCHANGED <<pressed_keys, cmd_pressed, last_paste_time,
                              listener, tasks>>
               /\ ev' = NoEvent
               /\ press_emits' = IF key = KeyV THEN 0 ELSE press_emits
    /\ UNCHANGED <<now, current_app, enabled, running>>
    /\ UNCHANGED uploadVars
    /\ UNCHANGED detectVars

\* the held trigger key repeats: another key-down with no key-up between
KeyRepeat ==
    /\ KeyV \in held
    /\ listener = "active"
    /\ OnKeyPress(KeyV)
    /\ press_emits' = press_emits + (Len(tasks') - Len(tasks))
    /\ UNCHANGED <<now, held, current_app, enabled, running>>
    /\ UNCHANGED uploadVars
    /\ UNCHANGED detectVars

\* a key goes up; an active listener calls on_release
KeyUp(key) ==
    /\ key \in held
    /\ held' = held \ {key}
    /\ IF listener = "active"
          THEN OnKeyRelease(key)
          ELSE /\ UNCHANGED <<pressed_keys, cmd_pressed, last_paste_time,
                              listener, tasks>>
               /\ ev' = NoEvent
    /\ UNCHANGED <<now, current_app, enabled, running, press_emits>>
    /\ UNCHANGED uploadVars
    /\ UNCHANGED detectVars

\* what start_listening returns when it gets past `if self.running`
StartReturn(how) == IF how = "ok" THEN "True" ELSE "False"

\* start_listening; `how` is where the construction of the listener fails, if
\* it does. With running set the call returns True at once, before the
\* constructor is reached; the value it returns is kept in ev.ret
StartListening(how) ==
    /\ IF running
          THEN /\ how = "ok"
               /\ UNCHANGED <<running, listener>>
               /\ ev' = [NoEvent EXCEPT !.ret = "True"]
          ELSE /\ running' = TRUE
               /\ listener' = CASE how = "ok" -> "active"
                                [] how = "ctor" -> listener
                                [] how = "start" -> "unstarted"
               /\ ev' = [NoEvent EXCEPT !.ret = StartReturn(how)]
    /\ UNCHANGED <<now, held, current_app, enabled, tasks>>
    /\ UNCHANGED keyVars
    /\ UNCHANGED uploadVars
    /\ UNCHANGED detectVars

\* stop_listening
StopListening ==
    /\ running' = FALSE
    /\ listener' = None
    /\ UNCHANGED <<now, held, current_app, enabled, tasks>>
    /\ ev' = NoEvent
    /\ UNCHANGED keyVars
    /\ UNCHANGED uploadVars
    /\ UNCHANGED detectVars

\* enable / disable / toggle
SetEnabled(b) ==
    /\ enabled # b
    /\ enabled' = b
    /\ UNCHANGED <<now, held, current_app, running, listener, tasks>>
    /\ ev' = NoEvent
    /\ UNCHANGED keyVars
    /\ UNCHANGED uploadVars
    /\ UNCHANGED detectVars

\* another application comes to the front, or the query starts failing
SwitchApp(app) ==
    /\ current_app # app
    /\ current_app' = app
    /\ UNCHANGED <<now, held, enabled, running, listener, tasks>>
    /\ ev' = NoEvent
    /\ UNCHANGED keyVars
    /\ UNCHANGED uploadVars
    /\ UNCHANGED detectVars

\* 250 ms pass
Tick ==
    /\ now < StartTime + MaxTicks
    /\ now' = now + 1
    /\ UNCHANGED <<held, current_app, enabled, running, listener, tasks>>
    /\ ev' = NoEvent
    /\ UNCHANGED keyVars
    /\ UNCHANGED uploadVars
    /\ UNCHANGED detectVars

-----------------------------------------------------------------------------
(* FileTransfer: connect_ssh, upload_file, upload_file_with_retry *)

\* self.ssh_client is None
NoClient == [owner |-> 0, connected |-> FALSE]

\* connect_ssh: self.ssh_client = SSHClient() comes before connect(), so a
\* failed connect leaves a client that is not connected
ClientAfterConnect(i, ok) == [owner |-> i, connected |-> ok]

\* what upload_file returns
Failure(error) == [success |-> FALSE, error |-> error, after |-> 0]
Success == [success |-> TRUE, error |-> "", after |-> 0]

\* the checks upload_file makes before its try block; "" when they pass
PreCheck(local_exists) ==
    IF ssh_client = NoClient THEN "No SSH connection"
    ELSE IF ~local_exists THEN "Local file not found"
    ELSE ""

\* scp.put is reached when SCPClient was constructed: whatever the mkdir
\* raises is swallowed by `except: pass`
TransferSkippedOnMkdirError(mkdir) == ssh_client.connected /\ mkdir # "exc"
TransferReached(mkdir) == ssh_client.connected

\* SCPClient(self.ssh_client.get_transport()), the mkdir and scp.put: the
\* transport of a client that is not connected is None and SCPClient raises;
\* `mkdir` is swallowed by its own try/except
PutOutcome(mkdir, put) ==
    IF ~ssh_client.connected THEN "exc" ELSE put

VerifySaysAnything(out) == IF out = "exc" THEN Failure("Upload failed") ELSE Success

\* exec_command("test -f ... && echo 'OK'") and `if result == 'OK'`
VerifyResult(out) ==
    CASE out = "OK" -> Success
      [] out = "absent" -> Failure("Upload verification failed")
      [] out = "exc" -> Failure("Upload failed")

\* `for attempt in range(max_retries + 1)`
LoopContinues(t) == t.attempt <= max_retries

NeverReturnsEarly(result) == FALSE

\* `if result.success: return result`
ReturnsEarly(result) == result.success

KeepFirstError(last_error, result) ==
    IF last_error = "" THEN result.error ELSE last_error

\* `last_error = result.error_message`
NextLastError(last_error, result) == result.error

\* TransferResult(success=False, error_message=f"Upload failed after
\* {max_retries + 1} attempts: {last_error}")
FinalFailure(t) ==
    [success |-> FALSE, error |-> t.last_error, after |-> max_retries + 1]

\* upload_file has returned `result` in thread t: the rest of the loop body
AfterAttempt(t, result, cur) ==
    LET counted == [t EXCEPT !.result = result, !.cur = cur,
                             !.fails = t.fails + (IF result.success THEN 0 ELSE 1),
                             !.oks = t.oks + (IF result.success THEN 1 ELSE 0)]
    IN IF ReturnsEarly(result)
          THEN [counted EXCEPT !.pc = "report"]
          ELSE [counted EXCEPT !.pc = "retry",
                               !.attempt = t.attempt + 1,
                               !.last_error = NextLastError(t.last_error, result)]

-----------------------------------------------------------------------------
(* SmartPaste: the paste thread *)

\* an accepted trigger: _on_key_press reaches _handle_paste_event
PasteRequested ==
    /\ Len(tasks) < MaxTasks
    /\ HandlePasteEvent
    /\ UNCHANGED handlerVars
    /\ UNCHANGED uploadVars
    /\ UNCHANGED detectVars

\* the first accepted trigger: the only paste thread of SpecUpload
FirstPasteRequested ==
    /\ Len(tasks) = 0
    /\ HandlePasteEvent
    /\ UNCHANGED handlerVars
    /\ UNCHANGED uploadVars
    /\ UNCHANGED detectVars

\* what the clipboard holds when get_clipboard_content is called ("error": the
\* call raises)
Contents == {"empty", "text", "image", "error"}

\* how _handle_image_paste goes for an image: getsize raises; a remote
\* context; a local context, where the copy to the local staging directory
\* works or raises
ImageCases == {"error", "remote", "local", "local_error"}

\* max_file_size_mb of the configuration
max_file_size_mb == 100

\* max_size = self.config.max_file_size_mb * 1024 * 1024
max_size == max_file_size_mb * 1024 * 1024

\* the sizes os.path.getsize reports: around the limit
Sizes == {max_size - 1, max_size, max_size + 1}

TooLargeAtLimit(file_size) == file_size >= max_size

\* `if file_size > max_size`
TooLarge(file_size) == file_size > max_size

\* self.stats
NoStats == [pastes_handled |-> 0, images_uploaded |-> 0, errors |-> 0]

CountsEveryCycle(content) == content # "error"

\* `if not content: return` comes before the counter
Counted(content) == content \notin {"empty", "error"}

\* `self.stats[counter] += 1` is a read of the entry and a later write of
\* the value read plus one, with no lock around them: another thread may run
\* between the two
ReadCounter(t, counter) == [t EXCEPT !.loaded = stats[counter]]
WriteCounter(t, counter) == [stats EXCEPT ![counter] = t.loaded + 1]

\* send_text_to_terminal: the text is written to the terminal by osascript
SendTextToTerminal(t, text) == [t EXCEPT !.injected = Append(@, text)]

\* simulate_paste: the text goes through the clipboard and a synthetic
\* Command+V when pyperclip was importable, and is only printed otherwise
SimulatePaste(t, text, has_pyperclip) ==
    IF has_pyperclip THEN [t EXCEPT !.injected = Append(@, text)] ELSE t

\* _handle_text_paste
HandleTextPaste(t, has_pyperclip) ==
    [SimulatePaste(t, "text", has_pyperclip) EXCEPT !.pc = "done"]

CopySendsPathThenError(t, ok) ==
    LET copied == SendTextToTerminal([t EXCEPT !.copies = @ + 1], "local path")
    IN  [(IF ok THEN copied ELSE SendTextToTerminal(copied, "# Error"))
            EXCEPT !.pc = "done"]

\* _copy_and_paste_local
CopyAndPasteLocal(t, ok) ==
    [SendTextToTerminal([t EXCEPT !.copies = @ + 1],
                        IF ok THEN "local path" ELSE "# Error")
        EXCEPT !.pc = "done"]

\* _handle_image_paste, up to the call of _upload_and_paste
HandleImagePaste(t, file_size, image) ==
    IF image = "error"
        THEN [SendTextToTerminal(t, "# Error") EXCEPT !.pc = "done"]
    ELSE LET measured == [t EXCEPT !.size = file_size] IN
         IF TooLarge(file_size)
             THEN [SendTextToTerminal(measured, "# Image too large")
                      EXCEPT !.pc = "done"]
         ELSE LET resolved == [measured EXCEPT !.resolves = @ + 1] IN
              IF image = "remote" THEN [resolved EXCEPT !.pc = "connect"]
              ELSE CopyAndPasteLocal(resolved, image = "local")

\* _handle_smart_paste up to the read of its counter: get_clipboard_content,
\* `if not content: return`, and the read of stats['pastes_handled'], or of
\* stats['errors'] in the except branch
HandleSmartPaste(i, content) ==
    /\ tasks[i].pc = "start"
    /\ LET t == [tasks[i] EXCEPT !.content = content] IN
       tasks' = [tasks EXCEPT ![i] =
          IF content = "error"
              THEN [ReadCounter(t, "errors") EXCEPT !.pc = "count_error"]
          ELSE IF Counted(content)
              THEN [ReadCounter(t, "pastes_handled") EXCEPT !.pc = "count"]
          ELSE [t EXCEPT !.pc = "done"]]
    /\ UNCHANGED handlerVars
    /\ UNCHANGED uploadVars
    /\ UNCHANGED detectVars

\* the write of stats['errors'] that ends the except branch
CountError(i) ==
    /\ tasks[i].pc = "count_error"
    /\ stats' = WriteCounter(tasks[i], "errors")
    /\ tasks' = [tasks EXCEPT ![i].pc = "done"]
    /\ UNCHANGED handlerVars
    /\ UNCHANGED <<max_retries, ssh_client, sessions, config_manager>>
    /\ UNCHANGED detectVars

\* the rest of _handle_smart_paste: the write of stats['pastes_handled'],
\* then _handle_text_paste, or _handle_image_paste and _copy_and_paste_local
\* up to the call of _upload_and_paste
CountPaste(i, file_size, image, has_pyperclip) ==
    /\ tasks[i].pc = "count"
    /\ stats' = WriteCounter(tasks[i], "pastes_handled")
    /\ tasks' = [tasks EXCEPT ![i] =
          CASE tasks[i].content = "text" -> HandleTextPaste(@, has_pyperclip)
            [] tasks[i].content = "image" -> HandleImagePaste(@, file_size, image)
            [] OTHER -> [@ EXCEPT !.pc = "done"]]
    /\ UNCHANGED handlerVars
    /\ UNCHANGED <<max_retries, ssh_client, sessions, config_manager>>
    /\ UNCHANGED detectVars

\* the sessions open after connect_ssh of thread i: the client it replaces is
\* dropped without close(), and its session ends only if the interpreter
\* collects it (`collected`); the new one is open when connect() succeeded
SessionsAfterConnect(i, ok, collected) ==
    (sessions \ (IF collected THEN {ssh_client.owner} ELSE {}))
        \cup (IF ok THEN {i} ELSE {})

\* _upload_and_paste up to the call of upload_file_with_retry: connect_ssh
ConnectSsh(i, ok, collected) ==
    /\ tasks[i].pc = "connect"
    /\ ssh_client' = ClientAfterConnect(i, ok)
    /\ sessions' = SessionsAfterConnect(i, ok, collected)
    /\ tasks' = [tasks EXCEPT ![i] =
          IF ok THEN [tasks[i] EXCEPT !.pc = "retry", !.connects = @ + 1]
                ELSE [tasks[i] EXCEPT !.pc = "done", !.connects = @ + 1,
                               !.injected = Append(@, "# SSH connection failed")]]
    /\ UNCHANGED handlerVars
    /\ UNCHANGED <<max_retries, stats, config_manager>>
    /\ UNCHANGED detectVars

\* upload_file_with_retry: the head of the loop, the sleep before a retry and
\* upload_file up to its try block; or the return after the loop
Retry(i, local_exists) ==
    LET t == tasks[i]
        error == PreCheck(local_exists)
    IN
    /\ t.pc = "retry"
    /\ tasks' = [tasks EXCEPT ![i] =
          IF LoopContinues(t)
             THEN IF error = ""
                     THEN [t EXCEPT !.pc = "put", !.calls = @ + 1,
                                    !.cur = NoAttempt]
                     ELSE AfterAttempt([t EXCEPT !.calls = @ + 1],
                                       Failure(error),
                                       [NoAttempt EXCEPT !.error = error])
             ELSE [t EXCEPT !.pc = "report", !.result = FinalFailure(t)]]
    /\ UNCHANGED handlerVars
    /\ UNCHANGED uploadVars
    /\ UNCHANGED detectVars

\* upload_file: the transfer (SCPClient, mkdir -p, scp.put)
Put(i, mkdir, put) ==
    /\ tasks[i].pc = "put"
    /\ LET entered == ssh_client.connected
           reached == TransferReached(mkdir)
           cur     == [mkdir |-> IF entered THEN mkdir ELSE "none",
                       put |-> IF reached THEN put ELSE "none",
                       verify |-> "none", error |-> ""]
       IN  tasks' = [tasks EXCEPT ![i] =
              IF reached /\ PutOutcome(mkdir, put) = "ok"
                 THEN [tasks[i] EXCEPT !.pc = "verify", !.cur = cur]
                 ELSE AfterAttempt(tasks[i], Failure("Upload failed"),
                                   [cur EXCEPT !.error = "Upload failed"])]
    /\ UNCHANGED handlerVars
    /\ UNCHANGED uploadVars
    /\ UNCHANGED detectVars

\* upload_file: the verification (test -f on the remote host)
Verify(i, out) ==
    /\ tasks[i].pc = "verify"
    /\ tasks' = [tasks EXCEPT ![i] =
          AfterAttempt(tasks[i], VerifyResult(out),
                       [tasks[i].cur EXCEPT !.verify = out,
                                            !.error = VerifyResult(out).error])]
    /\ UNCHANGED handlerVars
    /\ UNCHANGED uploadVars
    /\ UNCHANGED detectVars

AlwaysRemotePath(result) == "remote path"

\* what _upload_and_paste sends to the terminal for `result`
Reported(result) ==
    IF result.success THEN "remote path" ELSE "# Upload failed"

\* _upload_and_paste after upload_file_with_retry has returned: the text is
\* sent and, after a success, stats['images_uploaded'] is read
Report(i) ==
    /\ tasks[i].pc = "report"
    /\ LET result == tasks[i].result
           sent   == [SendTextToTerminal(tasks[i], Reported(result))
                        EXCEPT !.shown = IF Reported(result) = "# Upload failed"
                                             THEN result ELSE NoResult]
       IN  tasks' = [tasks EXCEPT ![i] =
              IF result.success
                  THEN [ReadCounter(sent, "images_uploaded")
                           EXCEPT !.pc = "count_upload"]
                  ELSE [sent EXCEPT !.pc = "done"]]
    /\ UNCHANGED handlerVars
    /\ UNCHANGED uploadVars
    /\ UNCHANGED detectVars

\* the write of stats['images_uploaded'] that ends _upload_and_paste
CountUpload(i) ==
    /\ tasks[i].pc = "count_upload"
    /\ stats' = WriteCounter(tasks[i], "images_uploaded")
    /\ tasks' = [tasks EXCEPT ![i].pc = "done"]
    /\ UNCHANGED handlerVars
    /\ UNCHANGED <<max_retries, ssh_client, sessions, config_manager>>
    /\ UNCHANGED detectVars

\* FileTransfer.close, called by SmartPaste.stop: self.ssh_client.close() and
\* self.ssh_client = None
Close ==
    /\ ssh_client # NoClient
    /\ ssh_client' = NoClient
    /\ sessions' = sessions \ {ssh_client.owner}
    /\ UNCHANGED handlerVars
    /\ UNCHANGED <<tasks, max_retries, stats, config_manager>>
    /\ UNCHANGED detectVars

-----------------------------------------------------------------------------
(* The terminal detector: src/terminal_detector.py.  A token of a command
   line is the sequence of its characters. *)

Ssh       == <<"s", "s", "h">>
UsrBinSsh == <<"/", "u", "s", "r", "/", "b", "i", "n", "/", "s", "s", "h">>
Sshfs     == <<"s", "s", "h", "f", "s">>
Zsh       == <<"z", "s", "h">>
DashL     == <<"-", "l">>
DashP     == <<"-", "p">>
DashO     == <<"-", "o">>
DashI     == <<"-", "i">>
DashF     == <<"-", "F">>
DashV     == <<"-", "v">>
Bob       == <<"b", "o", "b">>
Dave      == <<"d", "a", "v", "e">>
Alice     == <<"a", "l", "i", "c", "e">>
Carol     == <<"c", "a", "r", "o", "l">>
MyHost    == <<"m", "y", "h", "o", "s", "t">>
Foo       == <<"f", "o", "o">>
Bar       == <<"b", "a", "r">>
DaveAtFoo == <<"d", "a", "v", "e", "@", "f", "o", "o">>
ExampleCom == <<"e", "x", ".", "c", "o", "m">>
OptValue  == <<"k", "=", "v">>
P2222     == <<"2", "2", "2", "2">>
P2201     == <<"2", "2", "0", "1">>
P70000    == <<"7", "0", "0", "0", "0">>
P0        == <<"0">>
P9        == <<"9">>
Minus5    == <<"-", "5">>
Abc       == <<"a", "b", "c">>

\* the keys 'hostname', 'user' and 'port' of a configuration entry
KeyHostname == <<"h", "o", "s", "t", "n", "a", "m", "e">>
KeyUser     == <<"u", "s", "e", "r">>
KeyPort     == <<"p", "o", "r", "t">>

\* os.getenv('USER', 'unknown')
CurrentUser == <<"m", "e">>

\* Python's None and '' for a name: both are false in a condition
NoName == <<>>

\* the port when none is given
default_port == 22

\* SSHConnection, and None as the connection without a host name
NoConn == [username |-> NoName, hostname |-> NoName, port |-> 0, pid |-> 0]

\* an ~/.ssh/config with the aliases foo (HostName, User, Port) and bar (User)
SomeConfig ==
    (Foo :> [k \in {KeyHostname, KeyUser, KeyPort} |->
                CASE k = KeyHostname -> ExampleCom
                  [] k = KeyUser -> Alice
                  [] k = KeyPort -> P2201])
    @@ (Bar :> [k \in {KeyUser} |-> Carol])

\* str.startswith('-')
StartsWithDash(arg) == Len(arg) > 0 /\ arg[1] = "-"

\* '@' in arg
HasAt(arg) == \E k \in 1..Len(arg) : arg[k] = "@"

\* the index of the first '@' of arg
FirstAt(arg) == CHOOSE k \in 1..Len(arg) :
                    arg[k] = "@" /\ \A j \in 1..(k - 1) : arg[j] # "@"

\* arg.split('@', 1)[0]
UserPart(arg) == SubSeq(arg, 1, FirstAt(arg) - 1)

Digit == [c \in {"0", "1", "2", "3", "4", "5", "6", "7", "8", "9"} |->
             CASE c = "0" -> 0 [] c = "1" -> 1 [] c = "2" -> 2 [] c = "3" -> 3
               [] c = "4" -> 4 [] c = "5" -> 5 [] c = "6" -> 6 [] c = "7" -> 7
               [] c = "8" -> 8 [] c = "9" -> 9]

IsDigits(s) == Len(s) > 0 /\ \A k \in 1..Len(s) : s[k] \in DOMAIN Digit

\* int(s) does not raise ValueError: an optional sign, then decimal digits
ParsesAsInt(s) ==
    \/ IsDigits(s)
    \/ Len(s) > 1 /\ s[1] \in {"-", "+"} /\ IsDigits(Tail(s))

RECURSIVE DigitsValue(_)
DigitsValue(s) ==
    IF s = <<>> THEN 0
    ELSE 10 * DigitsValue(SubSeq(s, 1, Len(s) - 1)) + Digit[s[Len(s)]]

\* int(s), for an s that parses
IntValue(s) ==
    IF s[1] = "-" THEN 0 - DigitsValue(Tail(s))
    ELSE IF s[1] = "+" THEN DigitsValue(Tail(s))
    ELSE DigitsValue(s)

\* try: port = int(value) / except ValueError: pass
PortFrom(value, port) == IF ParsesAsInt(value) THEN IntValue(value) ELSE port

\* the host name of the destination token: what follows the first '@'
HostPartWhole(arg) == arg
HostPart(arg) ==
    IF HasAt(arg) THEN SubSeq(arg, FirstAt(arg) + 1, Len(arg)) ELSE arg

\* the tokens a flag other than -l <name> and -p <port> takes
OptionWidthOne(arg) == 1
OptionWidth(arg) == IF arg \in {DashO, DashI, DashF} THEN 2 ELSE 1

\* the end of _parse_ssh_command: a connection if a host name was found,
\* with the name of the current user when the command line names none
ConnectionAsParsed(username, hostname, port, pid) ==
    IF hostname = NoName THEN NoConn
    ELSE [username |-> username, hostname |-> hostname, port |-> port,
          pid |-> pid]
Connection(username, hostname, port, pid) ==
    IF hostname = NoName THEN NoConn
    ELSE [username |-> IF username = NoName THEN CurrentUser ELSE username,
          hostname |-> hostname, port |-> port, pid |-> pid]

\* the first token that is no flag: user@host or host, looked up among the
\* aliases of the SSH configuration
Destination(arg, username, port, pid) ==
    LET user   == IF HasAt(arg) THEN UserPart(arg) ELSE username
        host   == HostPart(arg)
        known  == host \in DOMAIN ssh_config_cache
        config == ssh_config_cache[host]
    IN  IF ~known THEN Connection(user, host, port, pid)
        ELSE Connection(
                IF KeyUser \in DOMAIN config /\ user = NoName
                    THEN config[KeyUser] ELSE user,
                IF KeyHostname \in DOMAIN config
                    THEN config[KeyHostname] ELSE host,
                IF KeyPort \in DOMAIN config
                    THEN PortFrom(config[KeyPort], port) ELSE port,
                pid)

\* the while loop of _parse_ssh_command, at token i
RECURSIVE Scan(_, _, _, _, _)
Scan(cmdline, i, username, port, pid) ==
    IF i > Len(cmdline) THEN Connection(username, NoName, port, pid)
    ELSE LET arg == cmdline[i] IN
        IF arg = DashL /\ i + 1 <= Len(cmdline)
            THEN Scan(cmdline, i + 2, cmdline[i + 1], port, pid)
        ELSE IF arg = DashP /\ i + 1 <= Len(cmdline)
            THEN Scan(cmdline, i + 2, username, PortFrom(cmdline[i + 1], port), pid)
        ELSE IF StartsWithDash(arg)
            THEN Scan(cmdline, i + OptionWidth(arg), username, port, pid)
        ELSE Destination(arg, username, port, pid)

\* the test both the walk and the parser make of a command line
LooksLikeSsh(cmdline) == Len(cmdline) > 0 /\ Contains(cmdline[1], Ssh)

\* TerminalDetector._parse_ssh_command
ParseSshCommand(cmdline, pid) ==
    IF ~LooksLikeSsh(cmdline) THEN NoConn
    ELSE Scan(cmdline, 2, NoName, default_port, pid)

\* parsed before _parse_ssh_command has run
NotParsed == [done |-> FALSE, conn |-> NoConn]

\* _parse_ssh_command applied to argv
ParseArgv ==
    /\ ~parsed.done
    /\ argv # <<>>
    /\ parsed' = [done |-> TRUE, conn |-> ParseSshCommand(argv, 1)]
    /\ UNCHANGED <<ssh_config_cache, argv, procs, top, walk, context, cfg,
                   shell_env>>
    /\ UNCHANGED pasteVars

\* the first tokens, port values, flags, destinations and trailing tokens the
\* command lines are made of
Commands     == {Ssh, UsrBinSsh, Sshfs, Zsh}
PortValues   == {P2222, P0, P70000, Minus5, Abc}
Flags(value) == {<<DashL, Bob>>, <<DashP, value>>, <<DashO, OptValue>>,
                 <<DashI, OptValue>>, <<DashV>>}
Destinations == {<<>>, <<MyHost>>, <<Foo>>, <<DaveAtFoo>>, <<Bar>>}
Trails       == {<<>>, <<DashP, P9>>}

RECURSIVE Flatten(_)
Flatten(ss) == IF ss = <<>> THEN <<>> ELSE Head(ss) \o Flatten(Tail(ss))

\* every command line of a first token, at most MaxFlags flags, a destination
\* or none, and trailing tokens or none
Argvs ==
    { <<c>> \o Flatten(fs) \o d \o t :
        c \in Commands,
        fs \in UNION { UNION { [1..n -> Flags(v)] : v \in PortValues } :
                       n \in 0..MaxFlags },
        d \in Destinations, t \in Trails }

-----------------------------------------------------------------------------
(* The walk up the process ancestry.  procs[1] is the foreground shell,
   procs[k + 1] the parent of procs[k], and the pid of procs[k] is k; top is
   the pid the last process reports as its parent, 0 when it reports none. *)

Localhost == <<"l", "o", "c", "a", "l", "h", "o", "s", "t">>

\* the depth bound of the ancestry walk
max_depth == 10

\* 'port': None of a local context
NoPort == -1

\* shell_pid when no foreground shell was found
NoPid == 0

ShellProc  == [cmdline |-> <<Zsh>>, access |-> "ok"]
SshProc    == [cmdline |-> <<Ssh, MyHost>>, access |-> "ok"]
BareSshProc == [cmdline |-> <<Ssh, DashV>>, access |-> "ok"]
DeniedProc == [cmdline |-> <<>>, access |-> "denied"]
GoneProc   == [cmdline |-> <<>>, access |-> "gone"]
ProcKinds  == {ShellProc, SshProc, BareSshProc, DeniedProc, GoneProc}

\* the ancestries: none (no foreground shell), every chain of at most
\* MaxChain processes, and max_depth + 1 nested shells
Chains ==
    UNION { [1..n -> ProcKinds] : n \in 0..MaxChain }
    \cup { [k \in 1..(max_depth + 1) |-> ShellProc] }

IdleWalk == [pc |-> "idle", shell_pid |-> NoPid, cur |-> 0, inspected |-> 0,
             conn |-> NoConn, failed |-> FALSE]

NoContext == [is_ssh |-> FALSE, username |-> NoName, hostname |-> NoName,
              port |-> NoPort, pid |-> NoPid]

\* get_current_connection_info, without an SSH connection
LocalContext(shell_pid) ==
    [is_ssh |-> FALSE, username |-> CurrentUser, hostname |-> Localhost,
     port |-> NoPort, pid |-> shell_pid]

\* get_current_connection_info, with the connection the detection found
RemoteContext(conn) ==
    [is_ssh |-> TRUE, username |-> conn.username, hostname |-> conn.hostname,
     port |-> conn.port, pid |-> conn.pid]

\* the environment of the foreground shell as proc.environ() gives it: the
\* names it holds and the words of the value of SSH_CLIENT
NoEnv == [access |-> "ok", names |-> {}, ssh_client |-> <<>>]

DeniedEnv == [access |-> "denied", names |-> {}, ssh_client |-> <<>>]

RemoteEnv == [access |-> "ok", names |-> {"SSH_CLIENT", "SSH_CONNECTION"},
              ssh_client |-> <<ExampleCom, P2222, P2201>>]

ForwardedEnv == [access |-> "ok", names |-> {"SSH_CONNECTION"},
                 ssh_client |-> <<>>]

Envs == {NoEnv, DeniedEnv, RemoteEnv, ForwardedEnv}

\* _detect_ssh_from_env: environ() raising is caught, and a well-formed
\* SSH_CLIENT returns None as every other path does
EnvGivesConnection(env) ==
    IF env.access = "ok" /\ env.names # {}
        THEN [username |-> CurrentUser, hostname |-> ExampleCom,
              port |-> default_port, pid |-> 1]
        ELSE NoConn
DetectSshFromEnv(env) ==
    IF env.access # "ok" THEN NoConn
    ELSE IF /\ env.names \cap {"SSH_CLIENT", "SSH_CONNECTION"} # {}
            /\ env.ssh_client # <<>>
            /\ Len(env.ssh_client) >= 3
        THEN NoConn
    ELSE NoConn

\* get_active_terminal_pid: the pid of the foreground shell, or none when
\* there is no such shell or a query for it fails
ShellPids == IF procs = <<>> THEN {NoPid} ELSE {NoPid, 1}

\* detect_ssh_connection after the walk, then get_current_connection_info
ContextFor(conn, shell_pid) ==
    LET ssh_conn == IF conn # NoConn THEN conn
                    ELSE DetectSshFromEnv(shell_env)
    IN  IF ssh_conn # NoConn THEN RemoteContext(ssh_conn)
        ELSE LocalContext(shell_pid)

\* the pid procs[cur] has as its parent, 0 for none
ParentPid(cur) == IF cur < Len(procs) THEN cur + 1 ELSE top

\* psutil's Process.parent(): None when there is no parent or it is gone
Parent(cur) ==
    LET ppid == ParentPid(cur)
    IN  IF ppid = 0 \/ procs[ppid].access = "gone" THEN 0 ELSE ppid

\* the process the loop goes on with, 0 when it breaks
NextProc(cur) ==
    LET parent == Parent(cur)
    IN  IF parent # 0 /\ parent # cur THEN parent ELSE 0

\* except (psutil.NoSuchProcess, psutil.AccessDenied): break
SkipFailedHop(cur) == ParentPid(cur)
OnQueryError(cur) == 0

\* psutil.Process(shell_pid) raises: except Exception prints it, None returned
LookupErrorEscapes(conn) == "raised"
OnLookupError(conn) == "done"

\* get_current_connection_info is called: it asks for the foreground shell,
\* and detect_ssh_connection asks again when it was handed none
StartDetect ==
    /\ walk.pc = "idle"
    /\ \E shell_pid \in ShellPids, again \in ShellPids :
           LET start == IF shell_pid # NoPid THEN shell_pid ELSE again
           IN  IF start = NoPid
                   THEN /\ walk' = [walk EXCEPT !.pc = "done",
                                                !.shell_pid = shell_pid]
                        /\ context' = LocalContext(shell_pid)
                   ELSE /\ walk' = [walk EXCEPT !.pc = "lookup",
                                                !.shell_pid = shell_pid]
                        /\ UNCHANGED context
    /\ UNCHANGED <<ssh_config_cache, argv, parsed, procs, top, cfg, shell_env>>
    /\ UNCHANGED pasteVars

\* current_proc = psutil.Process(shell_pid)
LookupShell ==
    /\ walk.pc = "lookup"
    /\ IF procs[1].access = "gone"
           THEN /\ walk' = [walk EXCEPT !.pc = OnLookupError(NoConn),
                                        !.failed = TRUE]
                /\ context' = IF OnLookupError(NoConn) = "done"
                                  THEN ContextFor(NoConn, walk.shell_pid)
                                  ELSE context
           ELSE /\ walk' = [walk EXCEPT !.pc = "loop", !.cur = 1]
                /\ UNCHANGED context
    /\ UNCHANGED <<ssh_config_cache, argv, parsed, procs, top, cfg, shell_env>>
    /\ UNCHANGED pasteVars

\* the walk ends with conn
Finished(conn, failed) ==
    /\ walk' = [walk EXCEPT !.pc = "done", !.inspected = walk.inspected + 1,
                            !.conn = conn, !.failed = failed]
    /\ context' = ContextFor(conn, walk.shell_pid)

\* the walk goes on with the process next
GoesOn(next) ==
    /\ walk' = [walk EXCEPT !.cur = next, !.inspected = walk.inspected + 1]
    /\ UNCHANGED context

\* one iteration of the while loop of _detect_ssh_in_process_tree
WalkStep ==
    /\ walk.pc = "loop"
    /\ walk.inspected <= max_depth
    /\ LET cur == walk.cur
           cmdline == procs[cur].cmdline
       IN  IF procs[cur].access # "ok"
               THEN IF OnQueryError(cur) = 0
                        THEN Finished(NoConn, TRUE)
                        ELSE GoesOn(OnQueryError(cur))
           ELSE IF LooksLikeSsh(cmdline)
               THEN Finished(ParseSshCommand(cmdline, cur), FALSE)
           ELSE IF NextProc(cur) = 0
               THEN Finished(NoConn, ParentPid(cur) # 0 /\ ParentPid(cur) # cur)
           ELSE GoesOn(NextProc(cur))
    /\ UNCHANGED <<ssh_config_cache, argv, parsed, procs, top, cfg, shell_env>>
    /\ UNCHANGED pasteVars

-----------------------------------------------------------------------------
(* The SSH configuration: _load_ssh_config and _parse_ssh_config.  A line is
   the sequence of its characters. *)

\* the configuration files read, in order: ~/.ssh/config, /etc/ssh/ssh_config
ssh_config_paths == 2

\* self.ssh_config_cache = {}
EmptyCache == [alias \in {} |-> <<>>]

\* the entry of an alias just created
EmptyEntry == [key \in {} |-> <<>>]

IsSpace(c) == c \in {" ", "\t"}

RECURSIVE LStrip(_)
LStrip(s) == IF s # <<>> /\ IsSpace(Head(s)) THEN LStrip(Tail(s)) ELSE s

RECURSIVE RStrip(_)
RStrip(s) ==
    IF s # <<>> /\ IsSpace(s[Len(s)])
        THEN RStrip(SubSeq(s, 1, Len(s) - 1)) ELSE s

\* str.strip()
Strip(s) == RStrip(LStrip(s))

UpperCase == <<"A", "B", "C", "D", "E", "F", "G", "H", "I", "J", "K", "L", "M",
               "N", "O", "P", "Q", "R", "S", "T", "U", "V", "W", "X", "Y", "Z">>
LowerCase == <<"a", "b", "c", "d", "e", "f", "g", "h", "i", "j", "k", "l", "m",
               "n", "o", "p", "q", "r", "s", "t", "u", "v", "w", "x", "y", "z">>

LowerChar(c) ==
    IF \E k \in 1..Len(UpperCase) : UpperCase[k] = c
        THEN LowerCase[CHOOSE k \in 1..Len(UpperCase) : UpperCase[k] = c]
        ELSE c

\* str.lower()
Lower(s) == [k \in 1..Len(s) |-> LowerChar(s[k])]

\* the index of the first white space of s, Len(s) + 1 when it has none
WordEnd(s) ==
    IF \E k \in 1..Len(s) : IsSpace(s[k])
        THEN CHOOSE k \in 1..Len(s) :
                 IsSpace(s[k]) /\ \A j \in 1..(k - 1) : ~IsSpace(s[j])
        ELSE Len(s) + 1

\* s.split(None, 1)[0] and s.split(None, 1)[1] (empty when there is none) of a
\* stripped s
FirstWord(s) == SubSeq(s, 1, WordEnd(s) - 1)
AfterFirstWord(s) == LStrip(SubSeq(s, WordEnd(s), Len(s)))

\* line.lower().startswith('host ')
IsHostLine(line) ==
    Len(line) >= 5 /\ Lower(SubSeq(line, 1, 5)) = <<"h", "o", "s", "t", " ">>

\* the entry a Host line leaves for its alias
FreshEntry(cache, host) == EmptyEntry
EntryAtHost(cache, host) ==
    IF host \in DOMAIN cache THEN cache[host] ELSE EmptyEntry

\* key.lower()
KeyAsWritten(key) == key
KeyOf(key) == Lower(key)

\* cache[host][key] = value
WithValue(cache, host, key, value) ==
    [alias \in DOMAIN cache |->
        IF alias # host THEN cache[alias]
        ELSE [k \in DOMAIN cache[host] \cup {key} |->
                 IF k = key THEN value ELSE cache[host][k]]]

\* the body of the for loop of _parse_ssh_config for one line
ParseLine(cache, current_host, text) ==
    LET line == Strip(text) IN
    IF line = <<>> \/ line[1] = "#"
        THEN [cache |-> cache, current_host |-> current_host]
    ELSE IF IsHostLine(line)
        THEN LET host == FirstWord(AfterFirstWord(line)) IN
             [cache |-> [alias \in DOMAIN cache \cup {host} |->
                            IF alias = host THEN EntryAtHost(cache, host)
                            ELSE cache[alias]],
              current_host |-> host]
    ELSE IF current_host # NoName /\ AfterFirstWord(line) # <<>>
        THEN [cache |-> WithValue(cache, current_host, KeyOf(FirstWord(line)),
                                  AfterFirstWord(line)),
              current_host |-> current_host]
    ELSE [cache |-> cache, current_host |-> current_host]

\* the lines the configuration files are made of: what is written, and what
\* it says (the alias of a Host line; the key and the value of an option)
HostLine(keyword, alias) ==
    [text |-> keyword \o <<" ">> \o alias, kind |-> "host", name |-> alias,
     value |-> <<>>]
OptionLine(indent, written, key, value) ==
    [text |-> indent \o written \o <<" ">> \o value, kind |-> "option",
     name |-> key, value |-> value]
OtherLine(text, kind) ==
    [text |-> text, kind |-> kind, name |-> <<>>, value |-> <<>>]

HostWord     == <<"H", "o", "s", "t">>
HostNameWord == <<"H", "o", "s", "t", "N", "a", "m", "e">>
UserWord     == <<"U", "s", "e", "r">>
PortWord     == <<"P", "o", "r", "t">>
Indent       == <<" ", " ">>

Lines ==
    { HostLine(HostWord, Foo),
      HostLine(Lower(HostWord), Bar),
      OptionLine(Indent, HostNameWord, KeyHostname, ExampleCom),
      OptionLine(<<"\t">>, UserWord, KeyUser, Alice),
      OptionLine(<<>>, Lower(UserWord), KeyUser, Carol),
      OptionLine(Indent, PortWord, KeyPort, P2201),
      OptionLine(<<>>, PortWord, KeyPort, P2222),
      OtherLine(<<" ">>, "blank"),
      OtherLine(<<"#", " ">> \o HostWord \o <<" ">> \o Bar, "comment") }

NoLine == OtherLine(<<>>, "none")

\* before _load_ssh_config; src counts the sources gone through, lines the
\* lines read of the source that is open, block is the alias of its latest
\* Host line and line the line read last
IdleCfg == [pc |-> "closed", src |-> 0, lines |-> 0, current_host |-> NoName,
            block |-> NoName, line |-> NoLine]

\* the next source of _load_ssh_config: it does not exist, open() or read()
\* raises, or its content is read
OpenSource(how) ==
    /\ cfg.pc = "closed"
    /\ cfg.src < ssh_config_paths
    /\ cfg' = [IdleCfg EXCEPT !.src = cfg.src + 1,
                              !.pc = IF how = "ok" THEN "reading" ELSE "closed"]
    /\ UNCHANGED <<ssh_config_cache, argv, parsed, procs, top, walk, context,
                   shell_env>>
    /\ UNCHANGED pasteVars

\* one line of the source that is open
ReadLine(l) ==
    /\ cfg.pc = "reading"
    /\ cfg.lines < MaxLines
    /\ LET after == ParseLine(ssh_config_cache, cfg.current_host, l.text) IN
       /\ ssh_config_cache' = after.cache
       /\ cfg' = [cfg EXCEPT !.lines = cfg.lines + 1,
                             !.current_host = after.current_host,
                             !.block = IF l.kind = "host" THEN l.name
                                       ELSE cfg.block,
                             !.line = l]
    /\ UNCHANGED <<argv, parsed, procs, top, walk, context, shell_env>>
    /\ UNCHANGED pasteVars

\* the end of the source that is open
EndOfSource ==
    /\ cfg.pc = "reading"
    /\ cfg' = [cfg EXCEPT !.pc = "closed"]
    /\ UNCHANGED <<ssh_config_cache, argv, parsed, procs, top, walk, context,
                   shell_env>>
    /\ UNCHANGED pasteVars

-----------------------------------------------------------------------------
(* ConfigManager: the configuration in memory and its files.  Of the keys of
   SmartPasteConfig the model keeps paste_cooldown_ms, which validate_config
   checks, and terminal_apps, which it does not. *)

\* SmartPasteConfig(): the defaults, terminal_apps from __post_init__
DefaultConfig ==
    [paste_cooldown_ms |-> 500,
     terminal_apps |-> {Terminal, ITerm2, ITerm, Hyper, Alacritty, Wezterm}]

\* the configurations a JSON file or update_config can give
ConfigValues ==
    [paste_cooldown_ms : {-1, 500, 1000},
     terminal_apps : {DefaultConfig.terminal_apps, {Terminal}}]

\* a file that does not exist
NoFile == [exists |-> FALSE, data |-> DefaultConfig]

\* a JSON file holding `data`
FileOf(data) == [exists |-> TRUE, data |-> data]

\* validate_config finds no error
Valid(c) == c.paste_cooldown_ms >= 0

\* no import_config call has just returned
NoImport == [outcome |-> "none", before |-> DefaultConfig,
             data |-> DefaultConfig]

\* save_config: open(config_file, 'w') and json.dump, or the error caught
SaveConfig(memory, config_file, ok) ==
    IF ok THEN FileOf(memory) ELSE config_file

\* _load_config: every key of the file is set on _config; without a file the
\* configuration in memory is saved
LoadConfig(memory, config_file, ok) ==
    IF config_file.exists
        THEN [memory |-> config_file.data, config_file |-> config_file]
        ELSE [memory |-> memory,
              config_file |-> SaveConfig(memory, config_file, ok)]

\* ConfigManager.__init__ finding `file` at config.json
Loaded(file) ==
    LET after == LoadConfig(DefaultConfig, file, TRUE)
    IN  [memory |-> after.memory, config_file |-> after.config_file,
         backup_file |-> NoFile, last |-> NoImport]

\* update_config(**kwargs)
UpdateConfig(key, value) ==
    /\ key \in DOMAIN config_manager.memory
    /\ config_manager' = [config_manager EXCEPT
                             !.memory = [@ EXCEPT ![key] = value],
                             !.last = NoImport]
    /\ config_manager'.memory # config_manager.memory
    /\ UNCHANGED <<handlerVars, tasks, max_retries, ssh_client, stats, sessions>>
    /\ UNCHANGED detectVars

\* save_config()
SaveConfigFile(ok) ==
    /\ config_manager' = [config_manager EXCEPT
                     !.config_file = SaveConfig(config_manager.memory, @, ok),
                     !.last = NoImport]
    /\ UNCHANGED <<handlerVars, tasks, max_retries, ssh_client, stats, sessions>>
    /\ UNCHANGED detectVars

\* reset_to_defaults()
ResetToDefaults(ok) ==
    /\ config_manager' = [config_manager EXCEPT
                     !.memory = DefaultConfig,
                     !.config_file = SaveConfig(DefaultConfig, @, ok),
                     !.last = NoImport]
    /\ UNCHANGED <<handlerVars, tasks, max_retries, ssh_client, stats, sessions>>
    /\ UNCHANGED detectVars

\* config.json is removed from outside the program
RemoveConfigFile ==
    /\ config_manager.config_file.exists
    /\ config_manager' = [config_manager EXCEPT !.config_file = NoFile,
                                                !.last = NoImport]
    /\ UNCHANGED <<handlerVars, tasks, max_retries, ssh_client, stats, sessions>>
    /\ UNCHANGED detectVars

\* the restore of import_config: only with a backup file, which is renamed
\* back and loaded
Restored(memory, config_file, backup_file) ==
    IF backup_file.exists
        THEN [memory |-> LoadConfig(memory, backup_file, TRUE).memory,
              config_file |-> backup_file, backup_file |-> NoFile]
        ELSE [memory |-> memory, config_file |-> config_file,
              backup_file |-> backup_file]

\* import_config(file_path): `readable` is whether the file opens and parses,
\* `data` what it holds, `ok` whether save_config can write
ImportConfig(readable, data, ok) ==
    LET moved   == config_manager.config_file.exists
        backup  == IF moved THEN config_manager.config_file
                   ELSE config_manager.backup_file
        current == IF moved THEN NoFile ELSE config_manager.config_file
        last(outcome) == [outcome |-> outcome, before |-> config_manager.memory,
                          data |-> data]
    IN
    /\ config_manager' =
          IF ~readable
              THEN [config_manager EXCEPT !.last = last("unreadable")]
          ELSE IF ~Valid(data)
              THEN LET r == Restored(data, current, backup)
                   IN  [memory |-> r.memory, config_file |-> r.config_file,
                        backup_file |-> r.backup_file, last |-> last("invalid")]
          ELSE [memory |-> data,
                config_file |-> SaveConfig(data, current, ok),
                backup_file |-> backup, last |-> last("imported")]
    /\ UNCHANGED <<handlerVars, tasks, max_retries, ssh_client, stats, sessions>>
    /\ UNCHANGED detectVars

-----------------------------------------------------------------------------

InitHandler ==
    /\ now = StartTime
    /\ held = {}
    /\ pressed_keys = {}
    /\ cmd_pressed = FALSE
    /\ enabled = TRUE
    /\ running = FALSE
    /\ listener = None
    /\ last_paste_time = 0
    /\ ev = NoEvent
    /\ press_emits = 0
    /\ tasks = <<>>
    /\ ssh_client = NoClient
    /\ stats = NoStats
    /\ sessions = {}

\* the terminal detector before any detection
InitDetect ==
    /\ ssh_config_cache = SomeConfig
    /\ argv = <<>>
    /\ parsed = NotParsed
    /\ procs = <<>>
    /\ top = 0
    /\ walk = IdleWalk
    /\ context = NoContext
    /\ cfg = IdleCfg
    /\ shell_env = NoEnv

\* the key handler, with any application in front
InitKeys ==
    /\ InitHandler
    /\ InitDetect
    /\ current_app \in Apps
    /\ max_retries = MaxRetries
    /\ config_manager = Loaded(NoFile)

\* one accepted trigger, for every configured retry count
Init ==
    /\ InitHandler
    /\ InitDetect
    /\ current_app = ITerm2
    /\ max_retries \in 0..MaxRetries
    /\ config_manager = Loaded(NoFile)

NextKeys ==
    \/ \E key \in Keys : KeyDown(key)
    \/ KeyRepeat
    \/ \E key \in Keys : KeyUp(key)
    \/ \E how \in {"ok", "ctor", "start"} : StartListening(how)
    \/ StopListening
    \/ \E b \in BOOLEAN : SetEnabled(b)
    \/ \E app \in Apps : SwitchApp(app)
    \/ Tick

SpecKeys == InitKeys /\ [][NextKeys]_vars

\* a step of any paste thread
ThreadStep ==
    \/ \E i \in 1..Len(tasks), content \in Contents :
          HandleSmartPaste(i, content)
    \/ \E i \in 1..Len(tasks) : CountError(i)
    \/ \E i \in 1..Len(tasks), file_size \in Sizes, image \in ImageCases,
          has_pyperclip \in BOOLEAN :
          CountPaste(i, file_size, image, has_pyperclip)
    \/ \E i \in 1..Len(tasks), ok, collected \in BOOLEAN :
          ConnectSsh(i, ok, collected)
    \/ \E i \in 1..Len(tasks), local_exists \in BOOLEAN : Retry(i, local_exists)
    \/ \E i \in 1..Len(tasks), mkdir, put \in {"ok", "exc"} : Put(i, mkdir, put)
    \/ \E i \in 1..Len(tasks), out \in {"OK", "absent", "exc"} : Verify(i, out)
    \/ \E i \in 1..Len(tasks) : Report(i)
    \/ \E i \in 1..Len(tasks) : CountUpload(i)

\* the dispatch of accepted triggers to paste threads that run side by side
InitThreads ==
    /\ InitHandler
    /\ InitDetect
    /\ current_app = ITerm2
    /\ max_retries \in 0..MaxRetriesShared
    /\ config_manager = Loaded(NoFile)

\* accepted triggers, the paste threads they start, and stop()
Next ==
    \/ PasteRequested
    \/ ThreadStep
    \/ Close

Spec == InitThreads /\ [][Next]_vars

\* one paste thread alone: upload_file_with_retry with nothing running beside it
NextUpload ==
    \/ FirstPasteRequested
    \/ ThreadStep
    \/ Close

SpecUpload == Init /\ [][NextUpload]_vars

\* _parse_ssh_command on every command line of Argvs
InitParse ==
    /\ InitHandler
    /\ current_app = ITerm2
    /\ max_retries = MaxRetries
    /\ config_manager = Loaded(NoFile)
    /\ ssh_config_cache = SomeConfig
    /\ argv \in Argvs
    /\ parsed = NotParsed
    /\ procs = <<>>
    /\ top = 0
    /\ walk = IdleWalk
    /\ context = NoContext
    /\ cfg = IdleCfg
    /\ shell_env = NoEnv

NextParse == ParseArgv

SpecParse == InitParse /\ [][NextParse]_vars

\* get_current_connection_info on every ancestry of Chains
InitWalk ==
    /\ InitHandler
    /\ current_app = ITerm2
    /\ max_retries = MaxRetries
    /\ config_manager = Loaded(NoFile)
    /\ ssh_config_cache = SomeConfig
    /\ argv = <<>>
    /\ parsed = NotParsed
    /\ procs \in Chains
    /\ top \in 0..Len(procs)
    /\ walk = IdleWalk
    /\ context = NoContext
    /\ cfg = IdleCfg
    /\ shell_env \in Envs

NextWalk ==
    \/ StartDetect
    \/ LookupShell
    \/ WalkStep

SpecWalk == InitWalk /\ [][NextWalk]_vars

\* _load_ssh_config on every content of the configuration files
InitConfig ==
    /\ InitHandler
    /\ current_app = ITerm2
    /\ max_retries = MaxRetries
    /\ config_manager = Loaded(NoFile)
    /\ ssh_config_cache = EmptyCache
    /\ argv = <<>>
    /\ parsed = NotParsed
    /\ procs = <<>>
    /\ top = 0
    /\ walk = IdleWalk
    /\ context = NoContext
    /\ cfg = IdleCfg
    /\ shell_env = NoEnv

NextConfig ==
    \/ \E how \in {"missing", "unreadable", "ok"} : OpenSource(how)
    \/ \E l \in Lines : ReadLine(l)
    \/ EndOfSource

SpecConfig == InitConfig /\ [][NextConfig]_vars

\* what ConfigManager.__init__ may find at config.json
ConfigFiles == {NoFile} \cup {FileOf(data) : data \in ConfigValues}

\* the configuration manager on every configuration file
InitSettings ==
    /\ InitHandler
    /\ InitDetect
    /\ current_app = ITerm2
    /\ max_retries = MaxRetries
    /\ config_manager \in {Loaded(file) : file \in ConfigFiles}

NextSettings ==
    \/ \E data \in ConfigValues : \E key \in DOMAIN data :
          UpdateConfig(key, data[key])
    \/ \E ok \in BOOLEAN : SaveConfigFile(ok)
    \/ \E ok \in BOOLEAN : ResetToDefaults(ok)
    \/ RemoveConfigFile
    \/ \E readable, ok \in BOOLEAN, data \in ConfigValues :
          ImportConfig(readable, data, ok)

SpecSettings == InitSettings /\ [][NextSettings]_vars

\* a configuration with a longer cooldown and a shorter list of terminals
CustomConfig == [paste_cooldown_ms |-> 1000, terminal_apps |-> {Terminal}]

\* the key handler of a SmartPaste whose configuration was loaded from a file
InitConfigured ==
    /\ InitHandler
    /\ InitDetect
    /\ current_app \in Apps
    /\ max_retries = MaxRetries
    /\ config_manager \in {Loaded(FileOf(DefaultConfig)),
                           Loaded(FileOf(CustomConfig))}

SpecConfigured == InitConfigured /\ [][NextKeys]_vars

-----------------------------------------------------------------------------
(* Properties of the key handler, checked under SpecKeys *)

\* the key event just handled was a key-down of the trigger key
TriggerDown == ev.key = KeyV /\ ev.down

\* C1: any two accepted triggers (paste threads started by _on_key_press) are
\* more than one cooldown window apart.
C1_TriggersApart ==
    \A i, j \in 1..Len(tasks) :
        i < j => tasks[j].at - tasks[i].at > paste_cooldown

\* two triggers have been accepted
C1_Witness == Len(tasks) >= 2

\* C7: after the press handler has accepted a trigger and returned its value
\* to the listener, the listener is still active and handles later key events.
C7_ListenerSurvivesAccept ==
    (TriggerDown /\ ev.emitted = 1) => listener = "active"

C9_AcceptedIffAtLeastCooldown ==
    (TriggerDown /\ ev.flag /\ ev.on /\ ev.app)
        => (ev.emitted = 1 <=> ev.elapsed >= paste_cooldown)

\* C9 as the code has it: with the modifier flag set, smart paste enabled and
\* an allow-listed foreground application, a trigger key-down starts exactly
\* one paste thread when more than one cooldown window has elapsed since the
\* last accepted trigger, and none otherwise.
C9_AcceptedIffMoreThanCooldown ==
    (TriggerDown /\ ev.flag /\ ev.on /\ ev.app)
        => /\ ev.emitted \in {0, 1}
           /\ ev.emitted = 1 <=> ev.elapsed > paste_cooldown

\* a trigger arrived exactly one cooldown window after an accepted one
C9_Witness ==
    /\ TriggerDown
    /\ ev.flag /\ ev.on /\ ev.app
    /\ ev.elapsed = paste_cooldown
    /\ Len(tasks) >= 1

\* C10: one physical press of the trigger key starts at most one paste thread.
C10_OnePerPress == press_emits <= 1

\* C11: a key that goes down while the paste thread of an earlier accepted
\* trigger is still running, with the listener started and not stopped by
\* stop_listening, is handled by the key handler.
C11_KeysHandledWhilePasteRuns ==
    [][(/\ running
        /\ listener \notin {None, "unstarted"}
        /\ \E i \in 1..Len(tasks) : tasks[i].pc # "done"
        /\ held' # held
        /\ held \subseteq held')
       => ev'.key # None]_vars

-----------------------------------------------------------------------------
(* Properties of the upload path, checked under SpecUpload and Spec *)

\* the paste threads started so far
Threads == {tasks[i] : i \in 1..Len(tasks)}

\* upload_file_with_retry has returned in thread t
Returned(t) == t.pc \in {"report", "count_upload", "done"} /\ t.calls > 0

\* C2: never more than max_retries + 1 upload attempts are made, no attempt
\* follows a successful one, and when attempt k + 1 is the first to succeed
\* upload_file_with_retry returns success after exactly k + 1 attempts.
C2_SuccessAfterKFailures ==
    \A t \in Threads :
        /\ t.calls <= max_retries + 1
        /\ t.oks <= 1
        /\ t.oks = 1 => /\ Returned(t)
                        /\ t.result.success
                        /\ t.calls = t.fails + 1

\* max_retries attempts failed and the last one allowed succeeded
C2_Witness ==
    \E t \in Threads :
        /\ max_retries = MaxRetries
        /\ t.pc = "done"
        /\ t.result.success
        /\ t.fails = max_retries
        /\ t.calls = max_retries + 1

\* C3: when every upload attempt fails, upload_file_with_retry returns failure
\* after exactly max_retries + 1 attempts and reports the error of the last
\* attempt.
C3_FailureCarriesLastError ==
    \A t \in Threads :
        (Returned(t) /\ t.oks = 0)
            => /\ ~t.result.success
               /\ t.calls = max_retries + 1
               /\ t.result.after = max_retries + 1
               /\ t.result.error = t.cur.error

\* every attempt failed, with at least one retry, the last one in verification
C3_Witness ==
    \E t \in Threads :
        /\ max_retries >= 1
        /\ t.pc = "done"
        /\ t.oks = 0
        /\ t.calls = max_retries + 1
        /\ t.result.error = "Upload verification failed"

\* C4: an upload attempt reports success only if its transfer completed
\* without error and its existence check found the remote file.
C4_SuccessNeedsTransferAndVerify ==
    \A t \in Threads :
        t.result.success => (t.cur.put = "ok" /\ t.cur.verify = "OK")

\* an attempt succeeded after an attempt that failed
C4_Witness ==
    \E t \in Threads : t.result.success /\ t.fails >= 1

\* a failure was reported to the user by thread t
ReportedFailure(t) ==
    /\ t.pc = "done"
    /\ \E k \in 1..Len(t.injected) :
          t.injected[k] \in {"# SSH connection failed", "# Upload failed"}

\* C5: a failure of a remote paste cycle is reported only after the whole
\* sequence connect, transfer, verify has been tried max_retries + 1 times,
\* each try with a session of its own.
C5_WholeSequenceRetried ==
    \A t \in Threads :
        ReportedFailure(t) => t.connects = max_retries + 1

\* an upload attempt of thread i is transferring or verifying
Uploading(i) == tasks[i].pc \in {"put", "verify"}

\* C6: at most one upload attempt is in progress at any time.
C6_UploadsNeverOverlap ==
    Cardinality({i \in 1..Len(tasks) : Uploading(i)}) <= 1

-----------------------------------------------------------------------------
(* Properties of the ancestry walk, checked under SpecWalk *)

\* get_current_connection_info has returned
Detected == walk.pc = "done"

\* the shell is no SSH invocation, its parent cannot be queried (it is gone or
\* access to it is denied) and its grandparent is a valid SSH invocation
InaccessibleParent ==
    /\ Len(procs) >= 3
    /\ procs[1] = ShellProc
    /\ procs[2].access # "ok"
    /\ procs[3] = SshProc

\* C12 as claimed: with an inaccessible parent and a grandparent that is a
\* valid SSH invocation, the resolved context is the remote one of the
\* grandparent.
C12_GrandparentFound ==
    (Detected /\ InaccessibleParent) =>
        context = RemoteContext(ParseSshCommand(procs[3].cmdline, 3))

\* C12, amended: with an inaccessible parent the walk ends at the failed hop,
\* the grandparent is never inspected and the resolved context is local.
C12_WalkEndsAtFailedHop ==
    (Detected /\ InaccessibleParent) =>
        /\ context = LocalContext(walk.shell_pid)
        /\ walk.inspected <= 2
        /\ walk.cur <= 2

\* a walk has ended at a parent that denied access, below an SSH grandparent
C12_Witness ==
    /\ Detected
    /\ InaccessibleParent
    /\ procs[2] = DeniedProc
    /\ walk.cur = 2

\* C13: an ancestor that looks like an SSH invocation but for which the
\* parser returns none does not end the search: the SSH invocation above it
\* determines the context.
C13_SearchGoesOnAfterNone ==
    (/\ Detected
     /\ Len(procs) >= 3
     /\ procs[1] = ShellProc
     /\ procs[2] = BareSshProc
     /\ procs[3] = SshProc) =>
        context = RemoteContext(ParseSshCommand(procs[3].cmdline, 3))

\* C14: the walk inspects at most max_depth processes.
C14_WalkBounded == walk.inspected <= max_depth

\* a context as get_current_connection_info documents it
WellFormed(c) ==
    IF c.is_ssh
        THEN c.hostname # NoName /\ c.username # NoName /\ c.port # NoPort
        ELSE c.hostname = Localhost /\ c.username = CurrentUser
             /\ c.port = NoPort

\* C15: no error escapes the detection; a process query that fails (the
\* lookup of the starting pid included) ends the walk, and the context
\* returned then is the well-formed local one.
C15_FailedQueryEndsWalk ==
    /\ walk.pc # "raised"
    /\ Detected => WellFormed(context)
    /\ walk.failed => Detected /\ context = LocalContext(walk.shell_pid)

\* the lookup of the starting pid has failed and a context was returned
C15_Witness ==
    /\ Detected
    /\ walk.failed
    /\ procs[1] = GoneProc

-----------------------------------------------------------------------------
(* Properties of the SSH command-line parser, checked under SpecParse *)

\* the index of the last '/' of a path, 0 when it has none
LastSlash(path) ==
    IF \E k \in 1..Len(path) : path[k] = "/"
        THEN CHOOSE k \in 1..Len(path) :
                 path[k] = "/" /\ \A j \in (k + 1)..Len(path) : path[j] # "/"
        ELSE 0

\* the base name of a path
Basename(path) == SubSeq(path, LastSlash(path) + 1, Len(path))

\* a token that is an integer in 1..65535
ValidPort(value) ==
    ParsesAsInt(value) /\ IntValue(value) >= 1 /\ IntValue(value) <= 65535

\* a token that is a host name and no alias of the SSH configuration
PlainHost(arg) ==
    /\ arg # <<>>
    /\ ~StartsWithDash(arg)
    /\ ~HasAt(arg)
    /\ arg \notin DOMAIN ssh_config_cache

\* the command line is an SSH invocation
IsSsh == Basename(argv[1]) = Ssh

\* C16: a command line `<command> <host>` gives a connection if and only if
\* the base name of its first token is exactly ssh.
C16_SshIffBasenameSsh ==
    (parsed.done /\ Len(argv) = 2 /\ PlainHost(argv[2])) =>
        (parsed.conn # NoConn <=> Basename(argv[1]) = Ssh)

\* C17: values given on the command line win over those of the alias: with
\* `-p <port>` the port is the one given, with `-l <user>` or user@alias the
\* user is the one given, and the HostName of the alias replaces the alias.
C17_ExplicitBeatsAlias ==
    (parsed.done /\ IsSsh /\ argv[Len(argv)] = Foo) =>
        /\ parsed.conn.hostname = ssh_config_cache[Foo][KeyHostname]
        /\ (Len(argv) = 4 /\ argv[2] = DashP /\ ValidPort(argv[3])) =>
               /\ parsed.conn.port = IntValue(argv[3])
               /\ parsed.conn.username = ssh_config_cache[Foo][KeyUser]
        /\ (Len(argv) = 4 /\ argv[2] = DashL) =>
               /\ parsed.conn.username = argv[3]
               /\ parsed.conn.port = IntValue(ssh_config_cache[Foo][KeyPort])
        /\ Len(argv) = 2 =>
               /\ parsed.conn.username = ssh_config_cache[Foo][KeyUser]
               /\ parsed.conn.port = IntValue(ssh_config_cache[Foo][KeyPort])

\* C18: after `-p <value>` with a value that is no integer in 1..65535 the
\* port is still the default one, and the token after the value is scanned
\* next: it is the destination.
C18_InvalidPortNotSet ==
    (/\ parsed.done
     /\ IsSsh
     /\ Len(argv) = 4
     /\ argv[2] = DashP
     /\ ~ValidPort(argv[3])
     /\ PlainHost(argv[4])) =>
        /\ parsed.conn.hostname = argv[4]
        /\ parsed.conn.port = default_port

\* C19: `ssh -l U -p P H` with P in 1..65535 and H no alias gives user U, host
\* H and port P; a leading -o, -i or -F takes two tokens and any other leading
\* flag one, without a change to the result; tokens after the destination
\* change nothing.
C19_FlagsAndDestination ==
    (parsed.done /\ IsSsh) =>
        /\ (/\ Len(argv) >= 6
            /\ argv[2] = DashL
            /\ argv[4] = DashP
            /\ ValidPort(argv[5])
            /\ PlainHost(argv[6])) =>
               parsed.conn = [username |-> argv[3], hostname |-> argv[6],
                              port |-> IntValue(argv[5]), pid |-> 1]
        /\ (Len(argv) >= 2 /\ argv[2] \in {DashO, DashI, DashF}) =>
               parsed.conn =
                   ParseSshCommand(<<argv[1]>> \o SubSeq(argv, 4, Len(argv)), 1)
        /\ (Len(argv) >= 2 /\ argv[2] = DashV) =>
               parsed.conn =
                   ParseSshCommand(<<argv[1]>> \o SubSeq(argv, 3, Len(argv)), 1)
        /\ parsed.conn # NoConn =>
               \A t \in {MyHost, DashL, DashP, P9} :
                   ParseSshCommand(Append(argv, t), 1) = parsed.conn

\* `ssh -l bob -p 2222 myhost -p 9` has been parsed
C19_Witness ==
    /\ parsed.done
    /\ argv = <<Ssh, DashL, Bob, DashP, P2222, MyHost, DashP, P9>>
    /\ parsed.conn.port = 2222

\* what follows the first '@' of a token, the token itself when it has none
AfterFirstAt(arg) ==
    IF \E k \in 1..Len(arg) : arg[k] = "@"
        THEN SubSeq(arg, 1 + CHOOSE k \in 1..Len(arg) :
                              arg[k] = "@" /\ \A j \in 1..(k - 1) : arg[j] # "@",
                    Len(arg))
        ELSE arg

\* the last token of argv is its destination: it follows the command, or one
\* flag with its argument
DestinationLast ==
    \/ Len(argv) = 2
    \/ Len(argv) = 4 /\ argv[2] \in {DashL, DashP, DashO, DashI}

\* C20: a destination (or what follows its first '@') that is an alias with a
\* HostName gives the HostName of the alias as the host name.
C20_AliasHostName ==
    (/\ parsed.done
     /\ IsSsh
     /\ DestinationLast
     /\ AfterFirstAt(argv[Len(argv)]) \in DOMAIN ssh_config_cache
     /\ KeyHostname \in DOMAIN ssh_config_cache[AfterFirstAt(argv[Len(argv)])]) =>
        parsed.conn.hostname =
            ssh_config_cache[AfterFirstAt(argv[Len(argv)])][KeyHostname]

\* `ssh dave@foo` has been parsed, foo an alias with a HostName
C20_Witness ==
    /\ parsed.done
    /\ argv = <<Ssh, DaveAtFoo>>
    /\ parsed.conn.username = Dave

-----------------------------------------------------------------------------
(* Properties of the SSH configuration, checked under SpecConfig *)

\* the line read last is an option line in the block of a Host line
InBlock == cfg.line.kind = "option" /\ cfg.block # NoName

\* what `ssh <alias>` resolves to with the configuration read so far
Resolved(alias) == ParseSshCommand(<<Ssh, alias>>, 1)

\* C21: after an option line in the block of `Host A` the entry of A has the
\* value of that line under its key, and `ssh A` resolves to it (HostName as
\* host name, User as user, Port as port number); blank lines, comment lines
\* and option lines before any Host line change nothing.
C21_RoundTrip ==
    /\ [](InBlock =>
            /\ cfg.block \in DOMAIN ssh_config_cache
            /\ cfg.line.name \in DOMAIN ssh_config_cache[cfg.block]
            /\ ssh_config_cache[cfg.block][cfg.line.name] = cfg.line.value
            /\ cfg.line.name = KeyHostname =>
                   Resolved(cfg.block).hostname = cfg.line.value
            /\ cfg.line.name = KeyUser =>
                   Resolved(cfg.block).username = cfg.line.value
            /\ cfg.line.name = KeyPort =>
                   Resolved(cfg.block).port = IntValue(cfg.line.value))
    /\ [][(\/ cfg'.line.kind \in {"blank", "comment"}
            \/ (cfg'.line.kind = "option" /\ cfg'.block = NoName))
           => ssh_config_cache' = ssh_config_cache]_vars

\* the block Host foo, HostName ex.com, User alice, Port 2201 has been read
C21_Witness ==
    /\ cfg.src = 1
    /\ cfg.lines = 4
    /\ cfg.line = OptionLine(Indent, PortWord, KeyPort, P2201)
    /\ ssh_config_cache = (Foo :> SomeConfig[Foo])
    /\ Resolved(Foo) = [username |-> Alice, hostname |-> ExampleCom,
                        port |-> 2201, pid |-> 1]

\* C22: every step of the loading keeps every recorded value but the one the
\* line just read sets, an option line in a block records its value (so the
\* last occurrence of a key under an alias is the one recorded, over blocks
\* and sources), and a source that is missing or cannot be read changes
\* nothing.
C22_LastOccurrenceWins ==
    [][/\ \A alias \in DOMAIN ssh_config_cache :
             /\ alias \in DOMAIN ssh_config_cache'
             /\ \A key \in DOMAIN ssh_config_cache[alias] :
                    /\ key \in DOMAIN ssh_config_cache'[alias]
                    /\ ssh_config_cache'[alias][key] # ssh_config_cache[alias][key]
                           => /\ cfg'.line.kind = "option"
                              /\ cfg'.block = alias
                              /\ cfg'.line.name = key
       /\ (cfg'.lines # cfg.lines /\ cfg'.line.kind = "option"
              /\ cfg'.block # NoName)
             => ssh_config_cache'[cfg'.block][cfg'.line.name] = cfg'.line.value
       /\ (cfg.pc = "closed" /\ cfg'.pc = "closed")
             => ssh_config_cache' = ssh_config_cache]_vars

\* the second source has overridden the User of foo and nothing else: its
\* two lines are Host foo and user carol
C22_Witness ==
    /\ cfg.src = 2
    /\ cfg.lines = 2
    /\ cfg.block = Foo
    /\ cfg.line = OptionLine(<<>>, Lower(UserWord), KeyUser, Carol)
    /\ ssh_config_cache[Foo][KeyUser] = Carol
    /\ KeyPort \in DOMAIN ssh_config_cache[Foo]
    /\ ssh_config_cache[Foo][KeyPort] = P2201
    /\ KeyHostname \in DOMAIN ssh_config_cache[Foo]


-----------------------------------------------------------------------------
(* Properties of the resolved context, checked under SpecWalk *)

\* no process of the ancestry is an SSH invocation the parser accepts
NoSshAncestor ==
    \A k \in 1..Len(procs) :
        \/ procs[k].access # "ok"
        \/ ParseSshCommand(procs[k].cmdline, k) = NoConn

\* the environment of the shell holds SSH_CLIENT or SSH_CONNECTION
MarkersPresent ==
    shell_env.access = "ok" /\ "SSH_CONNECTION" \in shell_env.names

\* C23: the context returned is the local one whenever no foreground shell
\* was found or the walk yielded no SSH connection, whatever the environment
\* of the shell holds; a remote context is always the one of the connection
\* the walk found.
C23_EnvNeverRemote ==
    Detected =>
        /\ walk.conn = NoConn => context = LocalContext(walk.shell_pid)
        /\ NoSshAncestor => ~context.is_ssh
        /\ context.is_ssh =>
               /\ walk.conn # NoConn
               /\ context = RemoteContext(walk.conn)

\* a walk over an ancestry without SSH invocation has ended with the local
\* context although the environment of the shell holds the SSH markers
C23_Witness ==
    /\ Detected
    /\ MarkersPresent
    /\ Len(shell_env.ssh_client) >= 3
    /\ procs # <<>>
    /\ walk.inspected >= 1
    /\ NoSshAncestor
    /\ context = LocalContext(1)

\* C24: a context with is_ssh false has the host name 'localhost' and no
\* port; a context with is_ssh true has a host name and a user name that are
\* not empty.
C24_ContextShape ==
    Detected =>
        IF context.is_ssh
            THEN context.hostname # NoName /\ context.username # NoName
            ELSE context.hostname = Localhost /\ context.port = NoPort

\* a remote context was returned for an SSH invocation that names no user
C24_Witness ==
    /\ Detected
    /\ context.is_ssh
    /\ procs[walk.cur] = SshProc
    /\ context.username = CurrentUser
    /\ context.hostname # NoName

-----------------------------------------------------------------------------
(* Properties of the dispatch of a paste cycle, checked under SpecUpload *)

\* what thread t has sent to the terminal
Injected(t) == {t.injected[k] : k \in 1..Len(t.injected)}

\* thread t has made no context query, no connection, no upload and no copy
NothingAttempted(t) ==
    /\ t.resolves = 0
    /\ t.connects = 0
    /\ t.calls = 0
    /\ t.copies = 0

\* C25: an image of exactly max_size bytes (or less) is accepted and
\* dispatched: the context is resolved and the upload or the local copy
\* follows; an image of max_size + 1 bytes is rejected: the comment is all
\* that is sent, and no context query, connection, upload or copy is made.
C25_SizeLimit ==
    \A t \in Threads :
        (t.content = "image" /\ t.size # NoSize) =>
            IF t.size <= max_size
                THEN /\ t.resolves = 1
                     /\ t.pc = "connect" \/ t.connects = 1 \/ t.copies = 1
                     /\ "# Image too large" \notin Injected(t)
                ELSE /\ t.pc = "done"
                     /\ t.injected = <<"# Image too large">>
                     /\ NothingAttempted(t)

\* an image of exactly max_size bytes was uploaded and its remote path sent
C25_Witness ==
    \E t \in Threads :
        /\ t.content = "image"
        /\ t.size = max_size
        /\ t.pc = "done"
        /\ t.injected = <<"remote path">>

\* C26: once upload_file_with_retry has returned for an image, the remote
\* path is sent if and only if it reported success; after a failure, which
\* comes only when the retries are exhausted, one comment carrying the error
\* of the result is sent; the remote path is never sent without a success.
C26_RemotePathIffSuccess ==
    \A t \in Threads :
        /\ "remote path" \in Injected(t) => t.result.success
        /\ (t.pc = "done" /\ t.calls > 0) =>
               IF t.result.success
                   THEN t.injected = <<"remote path">>
                   ELSE /\ t.injected = <<"# Upload failed">>
                        /\ t.shown = t.result
                        /\ t.shown.error # ""
                        /\ t.result.after = max_retries + 1

\* every attempt failed, with at least one retry, and the comment was sent
C26_Witness ==
    \E t \in Threads :
        /\ max_retries >= 1
        /\ t.content = "image"
        /\ t.pc = "done"
        /\ t.calls = max_retries + 1
        /\ ~t.result.success
        /\ t.injected = <<"# Upload failed">>
        /\ t.shown.error = "Upload verification failed"

\* C27: a paste cycle that finds the clipboard empty ends at once: it sends
\* nothing, makes no context query, connection, upload or copy, and the step
\* leaves the counters and the SSH client as they were.
C27_EmptyIsNoOp ==
    /\ [](\A t \in Threads :
              t.content = "empty" =>
                  /\ t.pc = "done"
                  /\ t.injected = <<>>
                  /\ NothingAttempted(t))
    /\ [][\A i \in 1..Len(tasks) :
              (tasks[i].pc = "start" /\ tasks'[i].content = "empty") =>
                  /\ stats' = stats
                  /\ ssh_client' = ssh_client]_vars

\* a paste cycle has found the clipboard empty and nothing was counted
C27_Witness ==
    \E t \in Threads :
        /\ t.content = "empty"
        /\ t.pc = "done"
        /\ stats = NoStats

\* C28 as claimed: a paste cycle whose clipboard content is text sends that
\* text to the terminal and makes no context query, connection or upload.
C28_TextInjected ==
    \A t \in Threads :
        t.content = "text" =>
            /\ t.pc \in {"count", "done"}
            /\ t.pc = "done" => t.injected = <<"text">>
            /\ NothingAttempted(t)

\* C29: when the mkdir of an upload attempt raises, the transfer is still
\* made, the verification follows a transfer that worked, and the attempt
\* succeeds exactly when the transfer worked and the verification said OK.
C29_MkdirFailureIgnored ==
    \A t \in Threads :
        t.cur.mkdir = "exc" =>
            /\ t.cur.put # "none"
            /\ t.cur.put = "ok" => (t.pc = "verify" \/ t.cur.verify # "none")
            /\ t.pc # "verify" =>
                   (t.cur.error = "" <=>
                        (t.cur.put = "ok" /\ t.cur.verify = "OK"))

\* an attempt whose mkdir raised has succeeded
C29_Witness ==
    \E t \in Threads :
        /\ t.cur.mkdir = "exc"
        /\ t.cur.put = "ok"
        /\ t.cur.verify = "OK"
        /\ t.result.success
        /\ t.pc = "done"

-----------------------------------------------------------------------------
(* Properties of the foreground-application query, checked under SpecKeys *)

\* C30: a trigger key-down that finds no foreground application (the query
\* failed or returned nothing) is not accepted: no paste thread is started,
\* last_paste_time keeps its value and the handler returns normally, leaving
\* the listener as it was.
C30_NoAppNotIntercepted ==
    [][(ev'.key = KeyV /\ ev'.down /\ current_app = NoApp) =>
           /\ tasks' = tasks
           /\ last_paste_time' = last_paste_time
           /\ ev'.ret = "None"
           /\ ev'.emitted = 0
           /\ ~ev'.app
           /\ listener' = listener]_vars

\* the trigger went down with the modifier held, the handler enabled and the
\* cooldown over, but with no foreground application, and was not accepted
C30_Witness ==
    /\ ev.key = KeyV
    /\ ev.down
    /\ ev.flag
    /\ ev.on
    /\ ev.elapsed > paste_cooldown
    /\ current_app = NoApp
    /\ ev.emitted = 0

-----------------------------------------------------------------------------
(* Properties of the configuration, checked under SpecConfigured and
   SpecSettings *)

\* the foreground application matches a name of the configured list
ConfiguredTerminal ==
    /\ current_app # NoApp
    /\ \E terminal \in config_manager.memory.terminal_apps :
           Contains(current_app, terminal)

\* C31 as claimed: a trigger key-down with the modifier held and the handler
\* enabled is accepted exactly when the foreground application matches the
\* configured terminal_apps and more than the configured paste_cooldown_ms
\* (in units of 250 ms) have passed since the last accepted trigger.
C31_ConfiguredWindowAndList ==
    (ev.key = KeyV /\ ev.down /\ ev.flag /\ ev.on) =>
        (ev.emitted = 1 <=>
            /\ ConfiguredTerminal
            /\ ev.elapsed > config_manager.memory.paste_cooldown_ms \div 250)

\* C39 as claimed: an import_config that fails validation leaves the
\* configuration in memory as it was before the call, and a successful one
\* makes every key equal to the imported value.
C39_FailedImportKeepsConfig ==
    /\ config_manager.last.outcome = "invalid" =>
           config_manager.memory = config_manager.last.before
    /\ config_manager.last.outcome = "imported" =>
           config_manager.memory = config_manager.last.data

-----------------------------------------------------------------------------
(* Properties of the key handler's bookkeeping, checked under SpecKeys *)

\* C32: a trigger key-down that is rejected (it emits no PasteRequested)
\* leaves last_paste_time and the modifier flag as they were, and
\* last_paste_time changes only in a step that emits PasteRequested
C32_RejectedLeavesStamp ==
    [][/\ (ev'.key = KeyV /\ ev'.down /\ ev'.emitted = 0)
           => (last_paste_time' = last_paste_time /\ cmd_pressed' = cmd_pressed)
       /\ (last_paste_time' # last_paste_time)
           => (ev'.key = KeyV /\ ev'.down /\ ev'.emitted = 1
               /\ Len(tasks') = Len(tasks) + 1)]_vars

\* a trigger key-down in a terminal, with the modifier held and the handler
\* enabled, was rejected inside the cooldown window of an accepted one
C32_Witness ==
    /\ ev.key = KeyV /\ ev.down /\ ev.flag /\ ev.on /\ ev.app
    /\ ev.emitted = 0
    /\ ev.elapsed <= paste_cooldown
    /\ Len(tasks) >= 1
    /\ last_paste_time = tasks[Len(tasks)].at

\* C33: cmd_pressed is true exactly when at least one of the modifier keys
\* (left or right Command) is in pressed_keys; with both held, releasing one
\* of them leaves the flag set
C33_FlagIffModifierPressed ==
    cmd_pressed <=> (pressed_keys \cap {KeyCmd, KeyCmdR} # {})

\* a call of start_listening has just returned
StartReturned == ev.key = None /\ ev.ret # "None"

\* C34: over every sequence of start_listening and stop_listening calls,
\* failed starts included, running is true only while a listener object
\* exists, and start_listening returns True only if a listener is active
\* afterwards
C34_RunningMeansListener ==
    /\ running => listener # None
    /\ (StartReturned /\ ev.ret = "True") => listener = "active"

-----------------------------------------------------------------------------
(* Properties of paste threads running side by side, checked under Spec *)

\* thread i makes a step of upload_file that uses self.ssh_client: the
\* transfer or the verification
UsesClient(i) ==
    /\ i <= Len(tasks)
    /\ tasks[i].pc \in {"put", "verify"}
    /\ tasks'[i] # tasks[i]

\* C35: under every interleaving of paste cycles, each transfer and each
\* verification is made over the SSH session that the same cycle opened,
\* never over one that another cycle opened
C35_OwnSession ==
    [][\A i \in 1..MaxTasks :
          (UsesClient(i) /\ ssh_client.connected) => ssh_client.owner = i]_vars

\* C37: at most one SSH session is open at any time, and none is open once
\* close() has set the client to None
C37_OneSession ==
    /\ Cardinality(sessions) <= 1
    /\ (ssh_client = NoClient) => (sessions = {})

\* the paste cycles that found content in the clipboard and have made their
\* `stats['pastes_handled'] += 1`
CountedCycles ==
    {i \in 1..Len(tasks) : /\ tasks[i].content \in {"text", "image"}
                           /\ tasks[i].pc # "count"}

\* C36: under every interleaving of paste cycles, stats['pastes_handled'] is
\* the number of cycles that found content (no increment is lost), and
\* stats['images_uploaded'] never exceeds it
C36_NoIncrementLost ==
    /\ stats.pastes_handled = Cardinality(CountedCycles)
    /\ stats.images_uploaded <= stats.pastes_handled

-----------------------------------------------------------------------------
(* Properties of the image paste cycle, checked under SpecUpload *)

\* what an image paste cycle can send to the terminal: a path, or a comment
\* that starts with `#`
ImageReplies ==
    {"local path", "remote path", "# Error", "# Image too large",
     "# SSH connection failed", "# Upload failed"}

\* the paste cycle of thread t has sent its last text
CycleEnded(t) == t.pc \in {"count_upload", "done"}

\* C38: every image paste cycle ends with exactly one string sent to the
\* terminal, a local path, a remote path or a `#` comment, and sends nothing
\* before its end
C38_OneReplyPerImage ==
    \A t \in Threads :
        t.content = "image" =>
            /\ CycleEnded(t) => /\ Len(t.injected) = 1
                                /\ t.injected[1] \in ImageReplies
            /\ (~CycleEnded(t)) => t.injected = <<>>

\* an image paste cycle in a local terminal has ended with the `# Error`
\* comment, after the copy to the local directory raised
C38_Witness ==
    \E t \in Threads :
        /\ t.content = "image"
        /\ t.pc = "done"
        /\ t.copies = 1
        /\ t.injected = <<"# Error">>

=========================================================================
